---- MODULE Spec2Model ----
(***************************************************************************)
(* A model of three tree passes of the traceur compiler:                   *)
(*   - RuntimeInliner   (src/src/codegeneration/generator/                 *)
(*                       ForInTransformPass.js, lines 186-335)             *)
(*   - AlphaRenamer     (src/src/codegeneration/AlphaRenamer.js)           *)
(*   - ForInTransformPass (ForInTransformPass.js, lines 47-184), together  *)
(*     with an interpreter for the statements it generates.                *)
(* Each component has its own specification (SpecInliner, SpecRename,      *)
(* SpecForIn, SpecExec); the variables of the other components stay idle.  *)
(***************************************************************************)
EXTENDS Integers, Sequences, FiniteSets, TLC

VARIABLES
  map_,      \* RuntimeInliner.map_: the entries, in property insertion order
  nextId,    \* the identifier generator's counter
  program,   \* the Program tree the driver holds (its programElements)
  call       \* the last call made on the RuntimeInliner and how it ended

VARIABLES
  tree,      \* the tree handed to AlphaRenamer.rename
  oldName,   \* AlphaRenamer.oldName_
  newName,   \* AlphaRenamer.newName_
  step,      \* "start", "once" (renamed), "back" (renamed back)
  once,      \* rename(tree, oldName, newName)
  back       \* rename(once, newName, oldName)

VARIABLES
  input,     \* the tree handed to ForInTransformPass.transformTree
  ids,       \* the counter of the pass's identifier generator
  output,    \* the tree transformTree returned
  error,     \* the error transformTree threw, or "none"
  phase      \* "start", "transformed", then "running" and "done" when executed

VARIABLES
  pc,        \* where the execution of output stands
  env,       \* the variables of the executing program and their values
  obj,       \* the keys of the collection object, in enumeration order
  evals,     \* how many times the collection expression was evaluated
  visited,   \* the body statements run so far, each with the value of K
  snapshot,  \* what native enumeration yielded to the snapshot loop
  reached    \* per iteration begun: the key, and whether obj still had it

inlVars == <<map_, nextId, program, call>>
renVars == <<tree, oldName, newName, step, once, back>>
passVars == <<input, ids, output, error, phase>>
execVars == <<pc, env, obj, evals, visited, snapshot, reached>>

vars == <<inlVars, renVars, passVars, execVars>>

(***************************************************************************)
(* Collaborators                                                           *)
(***************************************************************************)

\* UniqueIdentifierGenerator.generateUniqueIdentifier: the n-th identifier.
generateUniqueIdentifier(n) == "$__" \o ToString(n)

\* A piece of helper source text: plain text, or a %name placeholder.
Text(s) == [ph |-> FALSE, text |-> s]
Placeholder(name) == [ph |-> TRUE, text |-> name]

\* parse(source, name): the expression tree of the source, in file name@runtime.
parse(source, name) ==
  [type |-> "EXPRESSION", file |-> name \o "@runtime", tokens |-> source]

(***************************************************************************)
(* Trees                                                                   *)
(***************************************************************************)

Node(type, name, params, pattern, kids) ==
  [type |-> type, name |-> name, params |-> params, pattern |-> pattern,
   kids |-> kids]

\* createIdentifierExpression(name)
createIdentifierExpression(name) ==
  Node("IDENTIFIER_EXPRESSION", name, <<>>, FALSE, <<>>)

ThisExpression == Node("THIS_EXPRESSION", "", <<>>, FALSE, <<>>)

\* var name;  or  var name = initializer;  (kids: the initializer, if any)
VariableStatement(name, kids) ==
  Node("VARIABLE_STATEMENT", name, <<"var">>, FALSE, kids)

Block(statements) == Node("BLOCK", "", <<>>, FALSE, statements)

\* createFunctionDeclaration(name, formalParameterList, functionBody)
createFunctionDeclaration(name, params, body) ==
  Node("FUNCTION_DECLARATION", name, params, FALSE, <<body>>)

\* catch (binding) catchBody; pattern: the binding is a destructuring pattern
Catch(binding, pattern, body) == Node("CATCH", binding, <<>>, pattern, <<body>>)

NoTree == Node("NULL_TREE", "", <<>>, FALSE, <<>>)

Range(seq) == {seq[i] : i \in 1..Len(seq)}

\* PredefinedName.THIS, PredefinedName.ARGUMENTS
THIS == "this"
ARGUMENTS == "arguments"

(***************************************************************************)
(* Scope binding analysis (VariableBinder)                                 *)
(***************************************************************************)

\* the names declared by the direct statements of a block
variablesInBlock(t) ==
  {t.kids[i].name : i \in {j \in 1..Len(t.kids) :
       t.kids[j].type \in {"VARIABLE_STATEMENT", "FUNCTION_DECLARATION"}}}

\* the var-declared names anywhere in t, nested function bodies excluded
RECURSIVE VarNames(_)
VarNames(t) ==
  IF t.type = "FUNCTION_DECLARATION" THEN {}
  ELSE (IF t.type = "VARIABLE_STATEMENT" THEN {t.name} ELSE {})
       \cup UNION {VarNames(t.kids[i]) : i \in 1..Len(t.kids)}

\* the formal parameters and the var-declared names of the function body
variablesInFunction(t) == Range(t.params) \cup VarNames(t.kids[1])

(***************************************************************************)
(* AlphaRenamer                                                            *)
(***************************************************************************)

RECURSIVE transformAny(_, _, _)

\* ParseTreeTransformer's default: the node rebuilt from its transformed
\* children (binding identifiers and parameters are not expressions)
transformChildren(t, old, new) ==
  [t EXCEPT !.kids = [i \in 1..Len(t.kids) |-> transformAny(t.kids[i], old, new)]]

\* AlphaRenamer.prototype.transformBlock
transformBlock(t, old, new) ==
  IF old \in variablesInBlock(t) THEN t
  ELSE transformChildren(t, old, new)

\* AlphaRenamer.prototype.transformIdentifierExpression
transformIdentifierExpression(t, old, new) ==
  IF old = t.name THEN createIdentifierExpression(new) ELSE t

\* AlphaRenamer.prototype.transformThisExpression
transformThisExpression(t, old, new) ==
  IF old # THIS THEN t ELSE createIdentifierExpression(new)

TransformFunctionRenamesAlways(t, old, new) ==
  LET t1 == createFunctionDeclaration(new, t.params, t.kids[1])
      doNotRecurse == \/ old = ARGUMENTS
                      \/ old = THIS
                      \/ old \in variablesInFunction(t1)
  IN IF doNotRecurse THEN t1 ELSE transformChildren(t1, old, new)

TransformFunctionAlwaysRecurses(t, old, new) ==
  LET t1 == IF old = t.name
              THEN createFunctionDeclaration(new, t.params, t.kids[1])
              ELSE t
  IN transformChildren(t1, old, new)

\* AlphaRenamer.prototype.transformFunctionDeclaration
transformFunctionDeclaration(t, old, new) ==
  LET t1 == IF old = t.name
              THEN createFunctionDeclaration(new, t.params, t.kids[1])
              ELSE t
      doNotRecurse == \/ old = ARGUMENTS
                      \/ old = THIS
                      \/ old \in variablesInFunction(t1)
  IN IF doNotRecurse THEN t1 ELSE transformChildren(t1, old, new)

\* AlphaRenamer.prototype.transformCatch
transformCatch(t, old, new) ==
  IF ~t.pattern /\ old = t.name THEN t
  ELSE transformChildren(t, old, new)

\* ParseTreeTransformer.prototype.transformAny: the dispatch on the node type
transformAny(t, old, new) ==
  CASE t.type = "BLOCK" -> transformBlock(t, old, new)
    [] t.type = "IDENTIFIER_EXPRESSION" ->
         transformIdentifierExpression(t, old, new)
    [] t.type = "THIS_EXPRESSION" -> transformThisExpression(t, old, new)
    [] t.type = "FUNCTION_DECLARATION" ->
         transformFunctionDeclaration(t, old, new)
    [] t.type = "CATCH" -> transformCatch(t, old, new)
    [] OTHER -> transformChildren(t, old, new)

\* AlphaRenamer.rename
rename(t, old, new) == transformAny(t, old, new)

(***************************************************************************)
(* The trees and names rename is applied to                                *)
(***************************************************************************)

MaxParams == 1

ProgramNames == {"x", "y"}

ParameterLists == UNION {[1..n -> ProgramNames] : n \in 0..MaxParams}

Expressions ==
  {createIdentifierExpression(n) : n \in ProgramNames \cup {ARGUMENTS}}
    \cup {ThisExpression}

SimpleStatements ==
  Expressions \cup {VariableStatement(n, <<>>) : n \in ProgramNames}

\* one statement, or one followed by a use or a declaration of a name
StatementLists(S) ==
  {<<a>> : a \in S}
    \cup {<<a, b>> : a \in S,
                     b \in {t \in S : t.name \in ProgramNames}}

\* the scopes around a list of statements: a block, a function, a catch clause
Scopes(lists) ==
  {Block(ks) : ks \in lists}
    \cup {createFunctionDeclaration(n, ps, Block(ks)) :
            n \in ProgramNames, ps \in ParameterLists, ks \in lists}
    \cup {Catch(b, p, Block(ks)) :
            b \in ProgramNames, p \in BOOLEAN, ks \in lists}

Trees1 == Scopes(StatementLists(SimpleStatements))

\* a scope, alone or followed by a use of the name renamed
NestedLists ==
  {<<c>> : c \in Trees1}
    \cup {<<c, createIdentifierExpression("x")>> : c \in Trees1}

Trees ==
  SimpleStatements \cup Trees1 \cup Scopes(NestedLists)
    \cup {VariableStatement(n, <<c>>) : n \in ProgramNames, c \in Trees1}

OldNames == {"x", THIS, ARGUMENTS}
NewNames == {"y", "z", THIS, ARGUMENTS}

InlinerIdle ==
  /\ map_ = <<>> /\ nextId = 0 /\ program = <<>>
  /\ call = [op |-> "idle"]

ExecIdle ==
  /\ pc = [idx |-> 0, sub |-> "idle", j |-> 0]
  /\ env = <<>> /\ obj = <<>> /\ evals = 0
  /\ visited = <<>> /\ snapshot = <<>> /\ reached = <<>>

PassIdle ==
  /\ input = NoTree /\ output = NoTree
  /\ ids = 0 /\ error = "none" /\ phase = "idle"
  /\ ExecIdle

RenameIdle ==
  /\ tree = NoTree /\ once = NoTree /\ back = NoTree
  /\ oldName = "" /\ newName = "" /\ step = "idle"

InitRename ==
  /\ tree \in Trees
  /\ oldName \in OldNames
  /\ newName \in NewNames
  /\ step = "start"
  /\ once = NoTree
  /\ back = NoTree
  /\ InlinerIdle
  /\ PassIdle

RenameOnce ==
  /\ step = "start"
  /\ once' = rename(tree, oldName, newName)
  /\ step' = "once"
  /\ UNCHANGED <<tree, oldName, newName, back, inlVars, passVars, execVars>>

RenameBack ==
  /\ step = "once"
  /\ back' = rename(once, newName, oldName)
  /\ step' = "back"
  /\ UNCHANGED <<tree, oldName, newName, once, inlVars, passVars, execVars>>

NextRename == RenameOnce \/ RenameBack

SpecRename == InitRename /\ [][NextRename]_vars

(***************************************************************************)
(* Properties of the AlphaRenamer                                          *)
(***************************************************************************)

\* the names with a free occurrence in t: an identifier or this not inside a
\* scope that binds it
RECURSIVE FreeNames(_)
FreeNames(t) ==
  LET inside == UNION {FreeNames(t.kids[i]) : i \in 1..Len(t.kids)}
  IN CASE t.type = "IDENTIFIER_EXPRESSION" -> {t.name}
       [] t.type = "THIS_EXPRESSION" -> {THIS}
       [] t.type = "BLOCK" -> inside \ variablesInBlock(t)
       [] t.type = "FUNCTION_DECLARATION" ->
            inside \ (variablesInFunction(t) \cup {THIS, ARGUMENTS})
       [] t.type = "CATCH" -> inside \ {t.name}
       [] OTHER -> inside

\* the names that occur in t at all: used, declared, bound or as a parameter
RECURSIVE AllNames(_)
AllNames(t) ==
  (IF t.type = "THIS_EXPRESSION" THEN {THIS}
   ELSE IF t.type \in {"IDENTIFIER_EXPRESSION", "VARIABLE_STATEMENT",
                       "FUNCTION_DECLARATION", "CATCH"} THEN {t.name}
   ELSE {})
    \cup (IF t.type = "FUNCTION_DECLARATION" THEN Range(t.params) ELSE {})
    \cup UNION {AllNames(t.kids[i]) : i \in 1..Len(t.kids)}

\* C4, as stated, for names that are plain identifiers: when newName does not
\* occur free in the tree, renaming oldName to newName and back gives the tree
\* again, also when a scope of the tree binds newName.
C4_RoundTripNotFree ==
  (step = "back" /\ newName \notin FreeNames(tree)
     /\ {oldName, newName} \cap {THIS, ARGUMENTS} = {}) => back = tree

\* C4, amended: when newName does not occur in the tree at all (used, declared
\* or bound), oldName is not this and newName is neither this nor arguments,
\* renaming oldName to newName and back gives the tree again.
C4_RoundTripFresh ==
  (step = "back" /\ newName \notin AllNames(tree)
     /\ oldName # THIS /\ newName \notin {THIS, ARGUMENTS}) => back = tree

\* a round trip that renamed inside a function and restored it
C4_Witness ==
  /\ step = "back" /\ newName \notin AllNames(tree)
  /\ oldName # THIS /\ newName \notin {THIS, ARGUMENTS}
  /\ tree.type = "FUNCTION_DECLARATION" /\ tree.name = oldName
  /\ once.kids # tree.kids /\ once.name = newName
  /\ back = tree

\* what C5 says of one visited node t and the node r returned for it
ShadowingStops(t, r, old, new) ==
  /\ (t.type = "FUNCTION_DECLARATION"
        /\ (old \in variablesInFunction(t) \/ old \in {THIS, ARGUMENTS})) =>
       /\ r.params = t.params
       /\ r.kids = t.kids
       /\ r.type = t.type
       /\ (r.name = new /\ r.name # t.name) <=> (t.name = old /\ new # old)
       /\ t.name # old => r.name = t.name
  /\ (t.type = "BLOCK" /\ old \in variablesInBlock(t)) => r = t
  /\ (t.type = "CATCH" /\ ~t.pattern /\ t.name = old) => r = t

\* the nodes rename visits with the top-level dispatch or as the statements of
\* a block or body it recurses into, each with the node returned for it
RECURSIVE Visited(_, _)
Visited(t, r) ==
  {<<t, r>>} \cup
    (IF r.kids # t.kids /\ Len(r.kids) = Len(t.kids)
       THEN UNION {Visited(t.kids[i], r.kids[i]) : i \in 1..Len(t.kids)}
       ELSE {})

\* C5: a function declaration that binds oldName (or any, for arguments and
\* this) keeps its parameters and body, its name changed if and only if it is
\* oldName; a block that binds oldName and a catch clause whose plain binding
\* is oldName are returned unchanged.
C5_ShadowingStops ==
  step # "start" =>
    \A v \in Visited(tree, once) : ShadowingStops(v[1], v[2], oldName, newName)

\* a function named oldName, with oldName as parameter and used in its body
C5_Witness ==
  /\ step = "once"
  /\ tree.type = "FUNCTION_DECLARATION"
  /\ tree.name = oldName /\ oldName \in Range(tree.params)
  /\ oldName \in AllNames(tree.kids[1])
  /\ once = createFunctionDeclaration(newName, tree.params, tree.kids[1])
  /\ once # tree

(***************************************************************************)
(* ParseTreeFactory: the nodes ForInTransformPass builds                   *)
(***************************************************************************)

\* createVariableStatement(declarationType, name, initializer)
createVariableStatement(declarationType, name, initializer) ==
  Node("VARIABLE_STATEMENT", name, <<declarationType>>, FALSE, <<initializer>>)

\* a declaration of a declaration list: var lvalue;  or  var lvalue = init;
VariableDeclaration(lvalue, kids) ==
  Node("VARIABLE_DECLARATION", lvalue, <<>>, FALSE, kids)

\* a declaration list with the declarations given
VariableDeclarationList(declarationType, declarations) ==
  Node("VARIABLE_DECLARATION_LIST", "", <<declarationType>>, FALSE, declarations)

\* createVariableDeclarationList(declarationType, name, null)
createVariableDeclarationList(declarationType, name) ==
  VariableDeclarationList(declarationType, <<VariableDeclaration(name, <<>>)>>)

\* createVariableDeclarationList(declarationType, name, initializer)
createVariableDeclarationListInit(declarationType, name, initializer) ==
  VariableDeclarationList(declarationType,
                          <<VariableDeclaration(name, <<initializer>>)>>)

createEmptyArrayLiteralExpression ==
  Node("ARRAY_LITERAL_EXPRESSION", "", <<>>, FALSE, <<>>)

\* createNumberLiteral(n): the literal keeps its value
createNumberLiteral(n) == Node("LITERAL_EXPRESSION", "", <<n>>, FALSE, <<>>)

\* createMemberExpression(operand, memberName), operand an identifier
createMemberExpression(operand, memberName) ==
  Node("MEMBER_EXPRESSION", memberName, <<>>, FALSE,
       <<createIdentifierExpression(operand)>>)

createMemberLookupExpression(operand, member) ==
  Node("MEMBER_LOOKUP_EXPRESSION", "", <<>>, FALSE, <<operand, member>>)

\* createBinaryOperator(left, createOperatorToken(operator), right)
createBinaryOperator(left, operator, right) ==
  Node("BINARY_OPERATOR", operator, <<>>, FALSE, <<left, right>>)

\* createUnaryExpression(createOperatorToken(operator), operand)
createUnaryExpression(operator, operand) ==
  Node("UNARY_EXPRESSION", operator, <<>>, FALSE, <<operand>>)

createParenExpression(expression) ==
  Node("PAREN_EXPRESSION", "", <<>>, FALSE, <<expression>>)

\* createPostfixExpression(operand, createOperatorToken(operator))
createPostfixExpression(operand, operator) ==
  Node("POSTFIX_EXPRESSION", operator, <<>>, FALSE, <<operand>>)

\* a call of operand with the arguments given
CallExpression(operand, arguments) ==
  Node("CALL_EXPRESSION", "", <<>>, FALSE, <<operand>> \o arguments)

ExpressionStatement(expression) ==
  Node("EXPRESSION_STATEMENT", "", <<>>, FALSE, <<expression>>)

\* createCallStatement(operand, createArgumentList(argument))
createCallStatement(operand, argument) ==
  ExpressionStatement(CallExpression(operand, <<argument>>))

\* createAssignmentStatement(lhs, rhs)
createAssignmentStatement(lhs, rhs) ==
  ExpressionStatement(createBinaryOperator(lhs, "=", rhs))

createContinueStatement == Node("CONTINUE_STATEMENT", "", <<>>, FALSE, <<>>)

\* createIfStatement(condition, ifClause, null)
createIfStatement(condition, ifClause) ==
  Node("IF_STATEMENT", "", <<>>, FALSE, <<condition, ifClause>>)

createForInStatement(initializer, collection, body) ==
  Node("FOR_IN_STATEMENT", "", <<>>, FALSE, <<initializer, collection, body>>)

createForStatement(variables, condition, increment, body) ==
  Node("FOR_STATEMENT", "", <<>>, FALSE,
       <<variables, condition, increment, body>>)

\* PredefinedName.PUSH, PredefinedName.LENGTH
PUSH == "push"
LENGTH == "length"

(***************************************************************************)
(* ForInTransformPass                                                      *)
(***************************************************************************)

\* the parts of a for-in statement
Initializer(t) == t.kids[1]
Collection(t) == t.kids[2]
Body(t) == t.kids[3]

\* the result of a transform method: the tree, the generator's counter after
\* it, and the error thrown ("none": it returned)
Result(t, next, err) == [t |-> t, next |-> next, err |-> err]

InvalidLeftHandSide == "Invalid left hand side of for in loop"

RECURSIVE passTransformAny(_, _)

\* ParseTreeTransformer's transformList: the trees from index i on, each
\* transformed in order; done holds the ones already transformed
RECURSIVE passTransformList(_, _, _, _)
passTransformList(list, i, done, next) ==
  IF i > Len(list) THEN Result(done, next, "none")
  ELSE LET r == passTransformAny(list[i], next)
       IN IF r.err # "none" THEN Result(done, r.next, r.err)
          ELSE passTransformList(list, i + 1, Append(done, r.t), r.next)

\* ParseTreeTransformer's default: the node rebuilt from its transformed
\* children
passTransformChildren(t, next) ==
  LET r == passTransformList(t.kids, 1, <<>>, next)
  IN Result([t EXCEPT !.kids = r.t], r.next, r.err)

SnapshotLoopOverOriginal(t, keys, collection, p) ==
  createForInStatement(
    createVariableDeclarationList("var", p),
    Collection(t),
    createCallStatement(createMemberExpression(keys, PUSH),
                        createIdentifierExpression(p)))

\* for (var $p in $collection) $keys.push($p);
SnapshotLoop(t, keys, collection, p) ==
  createForInStatement(
    createVariableDeclarationList("var", p),
    createIdentifierExpression(collection),
    createCallStatement(createMemberExpression(keys, PUSH),
                        createIdentifierExpression(p)))

\* originalKey: the loop variable as an expression
OriginalKey(t) ==
  IF Initializer(t).type = "VARIABLE_DECLARATION_LIST"
    THEN createIdentifierExpression(Initializer(t).kids[1].name)
    ELSE Initializer(t)

\* assignOriginalKey: var key = $keys[$i];  or  key = $keys[$i];
AssignOriginalKey(t, lookup) ==
  IF Initializer(t).type = "VARIABLE_DECLARATION_LIST"
    THEN createVariableStatement(Initializer(t).params[1],
                                 OriginalKey(t).name, lookup)
    ELSE createAssignmentStatement(Initializer(t), lookup)

\* if (!(key in $collection)) continue;
MembershipGuard(t, collection) ==
  createIfStatement(
    createUnaryExpression("!",
      createParenExpression(
        createBinaryOperator(OriginalKey(t), "in",
                             createIdentifierExpression(collection)))),
    createContinueStatement)

InnerBlockGuardFirst(t, collection, lookup, bodyStatements) ==
  <<MembershipGuard(t, collection), AssignOriginalKey(t, lookup)>>
    \o bodyStatements

\* innerBlock: the assignment, the guard, then the statements of the body
InnerBlock(t, collection, lookup, bodyStatements) ==
  <<AssignOriginalKey(t, lookup), MembershipGuard(t, collection)>>
    \o bodyStatements

\* elements: the statements of the block the pass builds for the loop t, from
\* its transformed body
ForInElements(t, body, next) ==
  LET bodyStatements == IF body.type = "BLOCK" THEN body.kids ELSE <<body>>
      keys == generateUniqueIdentifier(next)
      collection == generateUniqueIdentifier(next + 1)
      p == generateUniqueIdentifier(next + 2)
      i == generateUniqueIdentifier(next + 3)
      lookup == createMemberLookupExpression(createIdentifierExpression(keys),
                                             createIdentifierExpression(i))
  IN <<createVariableStatement("var", keys, createEmptyArrayLiteralExpression),
       createVariableStatement("var", collection, Collection(t)),
       SnapshotLoop(t, keys, collection, p),
       createForStatement(
         createVariableDeclarationListInit("var", i, createNumberLiteral(0)),
         createBinaryOperator(createIdentifierExpression(i), "<",
                              createMemberExpression(keys, LENGTH)),
         createPostfixExpression(createIdentifierExpression(i), "++"),
         Block(InnerBlock(t, collection, lookup, bodyStatements)))>>

\* ForInTransformPass.prototype.transformForInStatement
transformForInStatement(t, next) ==
  LET b == passTransformAny(Body(t), next)
  IN IF b.err # "none" THEN Result(t, b.next, b.err)
     ELSE IF Initializer(t).type \notin {"VARIABLE_DECLARATION_LIST",
                                         "IDENTIFIER_EXPRESSION"}
       THEN Result(t, b.next + 4, InvalidLeftHandSide)
       ELSE Result(Block(ForInElements(t, b.t, b.next)), b.next + 4, "none")

\* ParseTreeTransformer.prototype.transformAny, with the pass's override
passTransformAny(t, next) ==
  IF t.type = "FOR_IN_STATEMENT" THEN transformForInStatement(t, next)
  ELSE passTransformChildren(t, next)

\* ForInTransformPass.transformTree
transformTree(next, t) == passTransformAny(t, next)

(***************************************************************************)
(* The trees transformTree is applied to                                   *)
(***************************************************************************)

\* a statement of a loop body that the pass does not look into
BodyStatement(name) ==
  ExpressionStatement(CallExpression(createIdentifierExpression(name), <<>>))

\* a collection expression with a side effect: a call
CollectionCall == CallExpression(createIdentifierExpression("collection"), <<>>)

LoopInitializers ==
  { createVariableDeclarationList("var", "k"),
    VariableDeclarationList("var", <<VariableDeclaration("k", <<>>),
                                     VariableDeclaration("j", <<>>)>>),
    createIdentifierExpression("k"),
    createMemberLookupExpression(createIdentifierExpression("o"),
                                 createIdentifierExpression("k")) }

SimpleBodies ==
  { BodyStatement("body1"),
    Block(<<BodyStatement("body1"), BodyStatement("body2")>>),
    Block(<<>>) }

SimpleCollections == {createIdentifierExpression("o"), CollectionCall}

Loops(initializers, collections, bodies) ==
  {createForInStatement(i, c, b) :
     i \in initializers, c \in collections, b \in bodies}

InnerLoops == Loops(LoopInitializers, SimpleCollections, SimpleBodies)

\* a function expression whose body holds a loop, as a collection
FunctionCollections ==
  {CallExpression(createFunctionDeclaration("", <<>>, Block(<<l>>)), <<>>) :
     l \in InnerLoops}

NestedBodies ==
  InnerLoops \cup {Block(<<l, BodyStatement("body2")>>) : l \in InnerLoops}

PassTrees ==
  InnerLoops
    \cup Loops(LoopInitializers, SimpleCollections, NestedBodies)
    \cup Loops(LoopInitializers, FunctionCollections, SimpleBodies)
    \cup {createFunctionDeclaration("f", <<>>, Block(<<l>>)) : l \in InnerLoops}

InitPass ==
  /\ input \in PassTrees
  /\ ids = 0
  /\ output = NoTree
  /\ error = "none"
  /\ phase = "start"
  /\ ExecIdle
  /\ InlinerIdle
  /\ RenameIdle

\* ForInTransformPass.transformTree(identifierGenerator, tree)
TransformTree ==
  /\ phase = "start"
  /\ LET r == transformTree(ids, input)
     IN /\ ids' = r.next
        /\ error' = r.err
        /\ output' = IF r.err = "none" THEN r.t ELSE NoTree
  /\ phase' = "transformed"
  /\ UNCHANGED <<input, inlVars, renVars, execVars>>

NextPass == TransformTree

SpecForIn == InitPass /\ [][NextPass]_vars

(***************************************************************************)
(* Properties of ForInTransformPass                                        *)
(***************************************************************************)

\* the loop-variable positions the pass is meant to take: a declaration list
\* with exactly one declaration of a plain name, or a plain reference
WellFormedInitializer(i) ==
  \/ i.type = "IDENTIFIER_EXPRESSION"
  \/ /\ i.type = "VARIABLE_DECLARATION_LIST"
     /\ Len(i.kids) = 1
     /\ ~i.kids[1].pattern

\* the for-in statements the pass visits in t: not those inside a collection
\* or an initializer of a for-in statement
RECURSIVE VisitedLoops(_)
VisitedLoops(t) ==
  IF t.type = "FOR_IN_STATEMENT" THEN {t} \cup VisitedLoops(Body(t))
  ELSE UNION {VisitedLoops(t.kids[i]) : i \in 1..Len(t.kids)}

\* every for-in statement in t
RECURSIVE AllLoops(_)
AllLoops(t) ==
  (IF t.type = "FOR_IN_STATEMENT" THEN {t} ELSE {})
    \cup UNION {AllLoops(t.kids[i]) : i \in 1..Len(t.kids)}

\* the identifiers the generator has handed out
Generated == {generateUniqueIdentifier(n) : n \in 0..(ids - 1)}

\* a key-snapshot loop of the pass: for (var $p in $collection) ...
IsSnapshotLoop(t) ==
  /\ Initializer(t).type = "VARIABLE_DECLARATION_LIST"
  /\ Len(Initializer(t).kids) = 1
  /\ Initializer(t).kids[1].name \in Generated
  /\ Collection(t).type = "IDENTIFIER_EXPRESSION"
  /\ Collection(t).name \in Generated

\* C3: transformTree throws the invalid-left-hand-side error, and returns no
\* tree, for every for-in loop it visits whose loop-variable position is
\* neither a declaration list with exactly one plain-name declaration nor a
\* plain reference.
C3_MalformedRejected ==
  (phase = "transformed"
     /\ \E l \in VisitedLoops(input) : ~WellFormedInitializer(Initializer(l)))
    => (error = InvalidLeftHandSide /\ output = NoTree)

\* C10: transformTree returns, and the only for-in statements of its result
\* are the key-snapshot loops it generated, wherever the for-in loops of the
\* input were nested.
C10_NoForInLeft ==
  (phase = "transformed" /\ error = "none")
    => \A l \in AllLoops(output) : IsSnapshotLoop(l)

(***************************************************************************)
(* Executing the statements the pass builds                                *)
(***************************************************************************)

\* values of the executing program
Undefined == [t |-> "undefined", v |-> <<>>]
String(str) == [t |-> "string", v |-> <<str>>]
Number(n) == [t |-> "number", v |-> <<n>>]
Boolean(b) == [t |-> "boolean", v |-> <<b>>]
Array(seq) == [t |-> "array", v |-> seq]
ObjectRef == [t |-> "object", v |-> <<>>]

IsTrue(x) == x.t = "boolean" /\ x.v[1]

\* the value of an expression; a call of collection() yields the object
RECURSIVE Eval(_, _, _)
Eval(e, vs, keys) ==
  CASE e.type = "IDENTIFIER_EXPRESSION" ->
         IF e.name \in DOMAIN vs THEN vs[e.name] ELSE Undefined
    [] e.type = "LITERAL_EXPRESSION" -> Number(e.params[1])
    [] e.type = "ARRAY_LITERAL_EXPRESSION" -> Array(<<>>)
    [] e.type = "PAREN_EXPRESSION" -> Eval(e.kids[1], vs, keys)
    [] e.type = "CALL_EXPRESSION" -> ObjectRef
    [] e.type = "MEMBER_LOOKUP_EXPRESSION" ->
         LET a == Eval(e.kids[1], vs, keys)
             i == Eval(e.kids[2], vs, keys)
         IN IF a.t = "array" /\ i.t = "number" /\ i.v[1] + 1 \in 1..Len(a.v)
              THEN a.v[i.v[1] + 1]
              ELSE Undefined
    [] e.type = "MEMBER_EXPRESSION" ->
         LET a == Eval(e.kids[1], vs, keys)
         IN IF e.name = LENGTH /\ a.t = "array" THEN Number(Len(a.v))
            ELSE Undefined
    [] e.type = "UNARY_EXPRESSION" -> Boolean(~IsTrue(Eval(e.kids[1], vs, keys)))
    [] e.type = "BINARY_OPERATOR" ->
         LET l == Eval(e.kids[1], vs, keys)
             r == Eval(e.kids[2], vs, keys)
         IN IF e.name = "in"
              THEN Boolean(r.t = "object" /\ l.t = "string"
                             /\ l.v[1] \in Range(keys))
            ELSE IF e.name = "<"
              THEN Boolean(l.t = "number" /\ r.t = "number" /\ l.v[1] < r.v[1])
            ELSE r
    [] OTHER -> Undefined

\* how many evaluations of the collection expression evaluating e makes
RECURSIVE CollectionEvals(_, _)
CollectionEvals(e, c) ==
  IF e = c THEN 1
  ELSE IF e.kids = <<>> THEN 0
  ELSE LET n[i \in 0..Len(e.kids)] ==
             IF i = 0 THEN 0 ELSE n[i - 1] + CollectionEvals(e.kids[i], c)
       IN n[Len(e.kids)]

Set(vs, name, value) == (name :> value) @@ vs

\* the variables after a statement or expression with an effect on them only:
\* a declaration, an assignment, $keys.push(x), i++
RECURSIVE Effect(_, _, _)
Effect(st, vs, keys) ==
  CASE st.type = "VARIABLE_STATEMENT" ->
         Set(vs, st.name, Eval(st.kids[1], vs, keys))
    [] st.type = "VARIABLE_DECLARATION_LIST" ->
         LET d == st.kids[1]
         IN IF d.kids = <<>> THEN vs
            ELSE Set(vs, d.name, Eval(d.kids[1], vs, keys))
    [] st.type = "EXPRESSION_STATEMENT" -> Effect(st.kids[1], vs, keys)
    [] st.type = "BINARY_OPERATOR" /\ st.name = "=" ->
         Set(vs, st.kids[1].name, Eval(st.kids[2], vs, keys))
    [] st.type = "POSTFIX_EXPRESSION" ->
         LET x == Eval(st.kids[1], vs, keys)
         IN Set(vs, st.kids[1].name, Number(x.v[1] + 1))
    [] st.type = "CALL_EXPRESSION" /\ st.kids[1].type = "MEMBER_EXPRESSION"
         /\ st.kids[1].name = PUSH ->
         LET array == st.kids[1].kids[1].name
         IN Set(vs, array, Array(Append(vs[array].v, Eval(st.kids[2], vs, keys))))
    [] OTHER -> vs

\* a native for-in over the keys from index i on: the loop variable is
\* assigned each key, then the body runs
RECURSIVE Enumerate(_, _, _, _)
Enumerate(loop, vs, keys, i) ==
  IF i > Len(keys) THEN vs
  ELSE LET variable == IF Initializer(loop).type = "VARIABLE_DECLARATION_LIST"
                         THEN Initializer(loop).kids[1].name
                         ELSE Initializer(loop).name
           assigned == Set(vs, variable, String(keys[i]))
       IN Enumerate(loop, Effect(Body(loop), assigned, keys), keys, i + 1)

\* a statement of the original body: a call the pass does not look into
IsBodyStatement(st) ==
  /\ st.type = "EXPRESSION_STATEMENT"
  /\ st.kids[1].type = "CALL_EXPRESSION"
  /\ st.kids[1].kids[1].type = "IDENTIFIER_EXPRESSION"

(***************************************************************************)
(* The loops executed                                                      *)
(***************************************************************************)

MaxKeys == 3
MaxChanges == 2

Keys == {"key" \o ToString(i) : i \in 1..MaxKeys}

\* the objects: every order of every set of keys
Objects ==
  {s \in UNION {[1..n -> Keys] : n \in 0..MaxKeys} :
     \A i, j \in 1..Len(s) : s[i] = s[j] => i = j}

ExecLoops ==
  Loops({createVariableDeclarationList("var", "k"),
         createIdentifierExpression("k")},
        {CollectionCall}, SimpleBodies)

\* what a statement of the body may do to the object: nothing, delete a key,
\* add a key
Changes(keys) ==
  {SelectSeq(keys, LAMBDA x : x # k) : k \in Range(keys)}
    \cup {Append(keys, k) : k \in Keys \ Range(keys)}

\* the loop variable K of the loop executed
LoopVariable == OriginalKey(input).name

InitExec ==
  /\ input \in ExecLoops
  /\ ids = 0
  /\ output = NoTree
  /\ error = "none"
  /\ phase = "start"
  /\ pc = [idx |-> 1, sub |-> "statement", j |-> 0]
  /\ env = <<>>
  /\ obj \in Objects
  /\ evals = 0
  /\ visited = <<>>
  /\ snapshot = <<>>
  /\ reached = <<>>
  /\ InlinerIdle
  /\ RenameIdle

Running == phase \in {"transformed", "running"} /\ error = "none"

\* the statement of the built block the execution stands at
Current == output.kids[pc.idx]

\* after statement idx of the built block
Advance ==
  /\ pc' = [idx |-> pc.idx + 1, sub |-> "statement", j |-> 0]
  /\ phase' = IF pc.idx = Len(output.kids) THEN "done" ELSE "running"

\* var $keys = [];  var $collection = COLLECTION;
ExecDeclaration ==
  /\ Running /\ pc.sub = "statement"
  /\ Current.type = "VARIABLE_STATEMENT"
  /\ env' = Effect(Current, env, obj)
  /\ evals' = evals + CollectionEvals(Current, Collection(input))
  /\ Advance
  /\ UNCHANGED <<obj, visited, snapshot, reached>>
  /\ UNCHANGED <<input, ids, output, error, inlVars, renVars>>

\* for (var $p in $collection) $keys.push($p);
ExecSnapshotLoop ==
  /\ Running /\ pc.sub = "statement"
  /\ Current.type = "FOR_IN_STATEMENT"
  /\ LET enumerated ==
           IF Eval(Collection(Current), env, obj).t = "object"
             THEN obj ELSE <<>>
     IN /\ env' = Enumerate(Current, env, enumerated, 1)
        /\ snapshot' = obj
  /\ evals' = evals + CollectionEvals(Collection(Current), Collection(input))
  /\ Advance
  /\ UNCHANGED <<obj, visited, reached>>
  /\ UNCHANGED <<input, ids, output, error, inlVars, renVars>>

\* for (var $i = 0; ...
ExecForInit ==
  /\ Running /\ pc.sub = "statement"
  /\ Current.type = "FOR_STATEMENT"
  /\ env' = Effect(Current.kids[1], env, obj)
  /\ pc' = [pc EXCEPT !.sub = "test"]
  /\ phase' = "running"
  /\ UNCHANGED <<obj, evals, visited, snapshot, reached>>
  /\ UNCHANGED <<input, ids, output, error, inlVars, renVars>>

\* ... $i < $keys.length; ...: an iteration begins, or the loop ends
ExecForTest ==
  /\ Running /\ pc.sub = "test"
  /\ evals' = evals + CollectionEvals(Current.kids[2], Collection(input))
  /\ IF IsTrue(Eval(Current.kids[2], env, obj))
       THEN /\ pc' = [pc EXCEPT !.sub = "body", !.j = 1]
            /\ phase' = "running"
            /\ reached' =
                 Append(reached,
                        IF Len(reached) < Len(snapshot)
                          THEN [key |-> snapshot[Len(reached) + 1],
                                live |-> snapshot[Len(reached) + 1] \in Range(obj)]
                          ELSE [key |-> "", live |-> FALSE])
       ELSE /\ Advance
            /\ UNCHANGED reached
  /\ UNCHANGED <<env, obj, visited, snapshot>>
  /\ UNCHANGED <<input, ids, output, error, inlVars, renVars>>

\* the statement of the loop's block the execution stands at
Inner == Current.kids[4].kids[pc.j]

\* after statement j of the loop's block
Step ==
  pc' = IF pc.j < Len(Current.kids[4].kids)
          THEN [pc EXCEPT !.j = pc.j + 1]
          ELSE [pc EXCEPT !.sub = "increment", !.j = 0]

\* var key = $keys[$i];  or  key = $keys[$i];
ExecAssignKey ==
  /\ Running /\ pc.sub = "body"
  /\ Inner.type # "IF_STATEMENT" /\ ~IsBodyStatement(Inner)
  /\ env' = Effect(Inner, env, obj)
  /\ evals' = evals + CollectionEvals(Inner, Collection(input))
  /\ Step
  /\ UNCHANGED <<obj, visited, snapshot, reached>>
  /\ UNCHANGED <<input, ids, output, error, phase, inlVars, renVars>>

\* if (!(key in $collection)) continue;
ExecGuard ==
  /\ Running /\ pc.sub = "body"
  /\ Inner.type = "IF_STATEMENT"
  /\ evals' = evals + CollectionEvals(Inner.kids[1], Collection(input))
  /\ IF IsTrue(Eval(Inner.kids[1], env, obj))
          /\ Inner.kids[2].type = "CONTINUE_STATEMENT"
       THEN pc' = [pc EXCEPT !.sub = "increment", !.j = 0]
       ELSE Step
  /\ UNCHANGED <<env, obj, visited, snapshot, reached>>
  /\ UNCHANGED <<input, ids, output, error, phase, inlVars, renVars>>

\* how many times the body has changed the object
ChangesMade == Len(SelectSeq(visited, LAMBDA r : r.changed))

\* a statement of the original body: it runs with K as it is, and may delete
\* or add a key of the object
ExecBodyStatement ==
  /\ Running /\ pc.sub = "body"
  /\ IsBodyStatement(Inner)
  /\ \E after \in {obj} \cup
                  (IF ChangesMade < MaxChanges THEN Changes(obj) ELSE {}) :
       /\ obj' = after
       /\ visited' = Append(visited,
                            [statement |-> Inner.kids[1].kids[1].name,
                             k |-> Eval(createIdentifierExpression(LoopVariable),
                                        env, obj),
                             changed |-> after # obj])
  /\ Step
  /\ UNCHANGED <<env, evals, snapshot, reached>>
  /\ UNCHANGED <<input, ids, output, error, phase, inlVars, renVars>>

\* ... $i++)
ExecForIncrement ==
  /\ Running /\ pc.sub = "increment"
  /\ env' = Effect(Current.kids[3], env, obj)
  /\ pc' = [pc EXCEPT !.sub = "test"]
  /\ UNCHANGED <<obj, evals, visited, snapshot, reached>>
  /\ UNCHANGED <<input, ids, output, error, phase, inlVars, renVars>>

NextExec ==
  \/ TransformTree
  \/ ExecDeclaration
  \/ ExecSnapshotLoop
  \/ ExecForInit
  \/ ExecForTest
  \/ ExecAssignKey
  \/ ExecGuard
  \/ ExecBodyStatement
  \/ ExecForIncrement

SpecExec == InitExec /\ [][NextExec]_vars

(***************************************************************************)
(* Properties of the executed loop                                         *)
(***************************************************************************)

\* the statements of BODY, by the function each calls
BodyNames ==
  LET statements == IF Body(input).type = "BLOCK" THEN Body(input).kids
                    ELSE <<Body(input)>>
  IN [i \in 1..Len(statements) |-> statements[i].kids[1].kids[1].name]

\* the runs of BODY's statements for the iterations given: all of BODY with K
\* the key for a key still in the object, nothing for a key that is gone
RECURSIVE Runs(_)
Runs(iterations) ==
  IF iterations = <<>> THEN <<>>
  ELSE LET it == iterations[Len(iterations)]
       IN Runs(SubSeq(iterations, 1, Len(iterations) - 1))
            \o (IF it.live
                  THEN [i \in 1..Len(BodyNames) |->
                          [statement |-> BodyNames[i], k |-> String(it.key)]]
                  ELSE <<>>)

IsPrefix(a, b) == Len(a) <= Len(b) /\ SubSeq(b, 1, Len(a)) = a

\* what was run, without the record of what each statement did to the object
Ran == [i \in 1..Len(visited) |->
          [statement |-> visited[i].statement, k |-> visited[i].k]]

AtGuard ==
  /\ phase = "running" /\ pc.sub = "body"
  /\ Inner.type = "IF_STATEMENT"

\* C1: the built loop runs BODY once per key of the snapshot, in the order of
\* native enumeration, except that a key no longer in the object when its
\* index is reached is skipped with no statement of BODY run; K holds the key
\* when the guard is tested.
C1_BodyPerLiveKey ==
  /\ phase \in {"running", "done"} =>
       /\ IsPrefix(Ran, Runs(reached))
       /\ reached # <<>> =>
            IsPrefix(Runs(SubSeq(reached, 1, Len(reached) - 1)), Ran)
       /\ \A i \in 1..Len(reached) :
            i <= Len(snapshot) /\ reached[i].key = snapshot[i]
  /\ AtGuard =>
       Eval(OriginalKey(input), env, obj) = String(reached[Len(reached)].key)
  /\ phase = "done" =>
       /\ Len(reached) = Len(snapshot)
       /\ Ran = Runs(reached)

\* three keys enumerated, the second deleted by BODY before its turn, the
\* first and third run
C1_Witness ==
  /\ phase = "done"
  /\ Len(snapshot) = 3
  /\ reached[1].live /\ ~reached[2].live /\ reached[3].live
  /\ Len(BodyNames) = 2
  /\ Len(visited) = 4

\* how many times the tree c occurs in t
RECURSIVE Occurrences(_, _)
Occurrences(t, c) ==
  IF t = c THEN 1
  ELSE IF t.kids = <<>> THEN 0
  ELSE LET n[i \in 0..Len(t.kids)] ==
             IF i = 0 THEN 0 ELSE n[i - 1] + Occurrences(t.kids[i], c)
       IN n[Len(t.kids)]

\* C2: COLLECTION occurs once in the built block, as the initializer of the
\* fresh collection variable, which the snapshot loop and the guard refer to;
\* executing the block evaluates COLLECTION once, whatever the number of keys.
C2_CollectionOnce ==
  /\ (phase # "start" /\ error = "none") =>
       /\ Occurrences(output, Collection(input)) = 1
       /\ output.kids[2].type = "VARIABLE_STATEMENT"
       /\ output.kids[2].kids = <<Collection(input)>>
       /\ output.kids[2].name \in Generated
       /\ output.kids[2].name \notin
            {output.kids[1].name, LoopVariable,
             output.kids[3].kids[1].kids[1].name,
             output.kids[4].kids[1].kids[1].name}
       /\ Collection(output.kids[3]) =
            createIdentifierExpression(output.kids[2].name)
       /\ output.kids[4].kids[4].kids[2].kids[1].kids[1].kids[1].kids[2] =
            createIdentifierExpression(output.kids[2].name)
  /\ evals <= 1
  /\ (phase = "running" /\ pc.idx > 2) => evals = 1
  /\ phase = "done" => evals = 1

\* a run to the end over three keys, and BODY run for each
C2_Witness ==
  /\ phase = "done" /\ evals = 1
  /\ Len(snapshot) = 3 /\ Len(visited) >= 3

(***************************************************************************)
(* RuntimeInliner                                                          *)
(***************************************************************************)

\* var shared = { toObject: `function(value) {...}` }
shared == [toObject |-> <<Text("function(value){return Object(value)}")>>]

\* name in this.map_
InMap(map, name) == \E i \in 1..Len(map) : map[i].name = name

\* this.map_[name]
Lookup(map, name) == map[CHOOSE i \in 1..Len(map) : map[i].name = name]

\* this.map_[name] = entry: an existing property keeps its place, a new one
\* goes last.
Assign(map, name, entry) ==
  IF InMap(map, name)
    THEN [i \in 1..Len(map) |-> IF map[i].name = name THEN entry ELSE map[i]]
    ELSE Append(map, entry)

RECURSIVE register(_, _, _)
RECURSIVE replace(_, _, _, _)

\* source.replace(/%([a-zA-Z0-9_$]+)/g, callback): the matches from left to
\* right, from token i on; out is the text built so far.  st is the inliner's
\* state [map, next, err]; a TypeError of getAsString ends the call.
replace(st, source, i, out) ==
  IF i > Len(source) THEN [st |-> st, out |-> out]
  ELSE IF ~source[i].ph THEN replace(st, source, i + 1, Append(out, source[i]))
  ELSE LET name == source[i].text
           st1 == IF name \in DOMAIN shared
                    THEN register(st, name, shared[name])
                    ELSE st
       IN IF st1.err # "none" THEN [st |-> st1, out |-> out]
          ELSE IF ~InMap(st1.map, name)
            THEN [st |-> [st1 EXCEPT !.err = "TypeError"], out |-> out]
            ELSE replace(st1, source, i + 1,
                         Append(out, Text(Lookup(st1.map, name).uid)))

RegisterAlways(st, name, source) ==
  LET r == replace(st, source, 1, <<>>)
  IN IF r.st.err # "none" THEN r.st
     ELSE [map |-> Assign(r.st.map, name,
                     [name |-> name,
                      expression |-> parse(r.out, name),
                      uid |-> generateUniqueIdentifier(r.st.next),
                      inserted |-> FALSE]),
           next |-> r.st.next + 1,
           err |-> "none"]

RegisterUidFirst(st, name, source) ==
  IF InMap(st.map, name) THEN st
  ELSE LET uid == generateUniqueIdentifier(st.next)
           r == replace([st EXCEPT !.next = st.next + 1], source, 1, <<>>)
       IN IF r.st.err # "none" THEN r.st
          ELSE [map |-> Assign(r.st.map, name,
                          [name |-> name,
                           expression |-> parse(r.out, name),
                           uid |-> uid,
                           inserted |-> FALSE]),
                next |-> r.st.next,
                err |-> "none"]

\* RuntimeInliner.prototype.register
register(st, name, source) ==
  IF InMap(st.map, name) THEN st
  ELSE LET r == replace(st, source, 1, <<>>)
       IN IF r.st.err # "none" THEN r.st
          ELSE [map |-> Assign(r.st.map, name,
                          [name |-> name,
                           expression |-> parse(r.out, name),
                           uid |-> generateUniqueIdentifier(r.st.next),
                           inserted |-> FALSE]),
                next |-> r.st.next + 1,
                err |-> "none"]

\* no source text: undefined (the empty string is as falsy)
NoSource == <<>>

GetPrefersCaller(st, name, opt_source) ==
  IF InMap(st.map, name) THEN st
  ELSE LET src == IF opt_source # NoSource THEN opt_source
                  ELSE IF name \in DOMAIN shared THEN shared[name]
                  ELSE opt_source
       IN IF src = NoSource THEN [st EXCEPT !.err = "AssertionError"]
          ELSE register(st, name, src)

\* RuntimeInliner.prototype.get, up to the registration
get(st, name, opt_source) ==
  IF InMap(st.map, name) THEN st
  ELSE LET src == IF name \in DOMAIN shared THEN shared[name] ELSE opt_source
       IN IF src = NoSource THEN [st EXCEPT !.err = "AssertionError"]
          ELSE register(st, name, src)

\* the names of transformProgram's filter: the entries not yet inserted
NotInserted(map) == SelectSeq(map, LAMBDA e : ~e.inserted)

\* createVariableDeclaration(item.uid, item.expression)
createVariableDeclaration(item) ==
  [lvalue |-> item.uid, initializer |-> item.expression]

\* createVariableStatement(createVariableDeclarationList(TokenType.VAR, vars))
HelperStatement(items) ==
  [type |-> "VARIABLE_STATEMENT", name |-> "var",
   declarations |-> [i \in 1..Len(items) |-> createVariableDeclaration(items[i])]]

\* an original top-level element of the program
Statement(s) ==
  [type |-> "STATEMENT", name |-> s, declarations |-> <<>>]

TransformProgramAlways(map, elements) ==
  IF Len(map) = 0 THEN elements
  ELSE <<HelperStatement(map)>> \o elements

\* RuntimeInliner.prototype.transformProgram: the program elements returned
transformProgram(map, elements) ==
  IF Len(map) = 0 THEN elements
  ELSE IF Len(NotInserted(map)) = 0 THEN elements
  ELSE <<HelperStatement(NotInserted(map))>> \o elements

\* item.inserted = true, for every entry transformProgram's filter lets through
MarkInserted(map) == [i \in 1..Len(map) |-> [map[i] EXCEPT !.inserted = TRUE]]

(***************************************************************************)
(* The calls made on one RuntimeInliner                                    *)
(***************************************************************************)

HelperNames == {"toObject", "spread", "rest"}

Sources ==
  { <<Text("function(a){return a}")>>,
    <<Text("function(b){return [b]}")>>,
    <<Text("function(c){return "), Placeholder("toObject"), Text("(c)}")>>,
    <<Placeholder("toObject"), Text("("), Placeholder("toObject"), Text(")")>>,
    <<Placeholder("spread"), Text("("), Placeholder("toObject"), Text(")")>> }

OriginalElements == <<Statement("s1"), Statement("s2")>>

NoCall ==
  [op |-> "none", name |-> "", source |-> NoSource, known |-> FALSE,
   outcome |-> "none", emitted |-> <<>>]

InitInliner ==
  /\ map_ = <<>>
  /\ nextId = 0
  /\ program = OriginalElements
  /\ call = NoCall
  /\ RenameIdle
  /\ PassIdle

State == [map |-> map_, next |-> nextId, err |-> "none"]

Register ==
  \E name \in HelperNames, source \in Sources :
    LET r == register(State, name, source)
    IN /\ map_' = r.map
       /\ nextId' = r.next
       /\ call' = [op |-> "register", name |-> name, source |-> source,
                   known |-> InMap(map_, name), outcome |-> r.err,
                   emitted |-> <<>>]
       /\ UNCHANGED <<program, renVars, passVars, execVars>>

Get ==
  \E name \in HelperNames, source \in Sources \cup {NoSource} :
    LET r == get(State, name, source)
    IN /\ map_' = r.map
       /\ nextId' = r.next
       /\ call' = [op |-> "get", name |-> name, source |-> source,
                   known |-> InMap(map_, name), outcome |-> r.err,
                   emitted |-> <<>>]
       /\ UNCHANGED <<program, renVars, passVars, execVars>>

Finalize ==
  /\ program' = transformProgram(map_, program)
  /\ map_' = MarkInserted(map_)
  /\ call' = [op |-> "finalize", name |-> "", source |-> NoSource,
              known |-> FALSE, outcome |-> "none",
              emitted |-> [i \in 1..Len(NotInserted(map_)) |->
                             NotInserted(map_)[i].name]]
  /\ UNCHANGED <<nextId, renVars, passVars, execVars>>

NextInliner == Register \/ Get \/ Finalize

SpecInliner == InitInliner /\ [][NextInliner]_vars

(***************************************************************************)
(* Properties of the RuntimeInliner                                        *)
(***************************************************************************)

IndexOf(map, name) == CHOOSE i \in 1..Len(map) : map[i].name = name

\* the placeholders of a source text that name h
HasPlaceholder(source, h) ==
  \E i \in 1..Len(source) : source[i].ph /\ source[i].text = h

\* the declarations of every helper statement of a program, in order
RECURSIVE Declarations(_)
Declarations(elements) ==
  IF elements = <<>> THEN <<>>
  ELSE Head(elements).declarations \o Declarations(Tail(elements))

C7_RegisterIdempotent ==
  /\ [](\A i, j \in 1..Len(map_) : map_[i].name = map_[j].name => i = j)
  /\ [][ (call'.op = "register" /\ InMap(map_, call'.name)) =>
           (map_' = map_ /\ nextId' = nextId /\ call'.outcome = "none") ]_vars

\* a second register of a name, with a source text other than the entry's
C7_Witness ==
  /\ call.op = "register" /\ call.known
  /\ \A i \in 1..Len(call.source) : ~call.source[i].ph
  /\ Lookup(map_, call.name).expression.tokens # call.source
  /\ Len(map_) >= 2

\* C8: a helper is declared by at most one finalize, the first after its
\* registration; a finalize with no helper registered since the last one
\* returns the program unchanged; a finalize that emits prepends exactly one
\* variable statement before the original elements, whose order is kept.
C8_FinalizeOnce ==
  /\ [](LET d == Declarations(program)
        IN /\ \A i, j \in 1..Len(d) : d[i].lvalue = d[j].lvalue => i = j
           /\ \A i, j \in 1..Len(d) :
                 d[i].initializer.file = d[j].initializer.file => i = j
           /\ \A i \in 1..Len(map_) :
                 map_[i].inserted <=>
                   \E k \in 1..Len(d) : d[k] = createVariableDeclaration(map_[i])
           /\ SubSeq(program, Len(program) - 1, Len(program)) = OriginalElements
           /\ \A i \in 1..(Len(program) - 2) :
                 program[i].type = "VARIABLE_STATEMENT")
  /\ [][ call'.op = "finalize" =>
           /\ \A i \in 1..Len(map_') : map_'[i].inserted
           /\ NotInserted(map_) = <<>> => program' = program
           /\ NotInserted(map_) # <<>> =>
                /\ program' = <<program'[1]>> \o program
                /\ program'[1].type = "VARIABLE_STATEMENT"
                /\ program'[1].declarations =
                     [i \in 1..Len(NotInserted(map_)) |->
                        createVariableDeclaration(NotInserted(map_)[i])] ]_vars

\* a finalize with nothing new to emit, after two finalizes that did emit
C8_Witness ==
  /\ call.op = "finalize" /\ call.emitted = <<>>
  /\ Len(program) = Len(OriginalElements) + 2
  /\ Len(map_) >= 2

\* source with every placeholder replaced by the identifier of the helper it
\* names in map
Substituted(source, map) ==
  [i \in 1..Len(source) |->
     IF source[i].ph THEN Text(Lookup(map, source[i].text).uid) ELSE source[i]]

\* what C9 says of a register(name, source) that returned, for the shared
\* helper h named by a placeholder of source
TransitiveRegistration(name, source, h) ==
  /\ InMap(map_', h) /\ InMap(map_', name)
  /\ Lookup(map_', name).expression = parse(Substituted(source, map_'), name)
  /\ ~InMap(map_, h) =>
        /\ IndexOf(map_', h) < IndexOf(map_', name)
        /\ Lookup(map_', h).uid = generateUniqueIdentifier(nextId)
        /\ Lookup(map_', name).uid = generateUniqueIdentifier(nextId + 1)
        /\ nextId' = nextId + 2
        /\ LET d == transformProgram(map_', program)[1].declarations
           IN \E i, j \in 1..Len(d) :
                 /\ i < j
                 /\ d[i] = createVariableDeclaration(Lookup(map_', h))
                 /\ d[j] = createVariableDeclaration(Lookup(map_', name))
  /\ InMap(map_, h) =>
        /\ Lookup(map_', h) = Lookup(map_, h)
        /\ Len(map_') = Len(map_) + 1
        /\ nextId' = nextId + 1

\* C9, as stated: register(name, source) with a placeholder for a shared
\* helper h registers h first (entry and identifier before name's, declaration
\* before name's, identifier substituted for every placeholder), and reuses
\* h's entry when h is already registered.
C9_SharedRegisteredFirst ==
  [][ (call'.op = "register" /\ ~InMap(map_, call'.name)
         /\ call'.outcome = "none") =>
        \A h \in DOMAIN shared :
           HasPlaceholder(call'.source, h) =>
              TransitiveRegistration(call'.name, call'.source, h) ]_vars

\* C9, amended: the same, for a name other than h itself.
C9_SharedRegisteredFirstOther ==
  [][ (call'.op = "register" /\ ~InMap(map_, call'.name)
         /\ call'.outcome = "none") =>
        \A h \in DOMAIN shared :
           (HasPlaceholder(call'.source, h) /\ call'.name # h) =>
              TransitiveRegistration(call'.name, call'.source, h) ]_vars

\* a register that brought the shared helper in: two entries from one call,
\* the text naming toObject twice
C9_Witness ==
  /\ call.op = "register" /\ ~call.known /\ call.outcome = "none"
  /\ call.name = "rest"
  /\ Len(SelectSeq(call.source,
                   LAMBDA t : t.ph /\ t.text = "toObject")) = 2
  /\ Len(map_) = 2 /\ nextId = 2
  /\ map_[1].name = "toObject"

====
